---- MODULE Spec2Model ----
(***************************************************************************)
(* The event submission pipeline of the HEC client (src/hec.go,            *)
(* src/errors.go): Client.WriteEvent, Client.WriteBatch, Client.WriteRaw   *)
(* and the retrying transport Client.write.                                *)
(*                                                                         *)
(* Byte strings (encoded events, raw streams, request bodies) are kept     *)
(* run-length encoded: a sequence of runs [b |-> byte, n |-> count], so    *)
(* that lines as long as bufio's token limit can be written down.          *)
(***************************************************************************)
EXTENDS Integers, Sequences, FiniteSets, TLC

\* ------------------------------------------------------------------ bounds
MaxEvents == 3      \* longest event list handed to WriteBatch
MaxSize   == 2      \* longest event payload, and longest short run of a raw stream
MaxRuns   == 3      \* most runs of a raw stream
MaxLen    == 6      \* largest size handed to SetMaxContentLength
MaxRetry  == 2      \* largest limit handed to SetMaxRetry
MaxLines  == 3      \* most lines of a stream made of whole lines
MaxShared == 2      \* the events, and the lines, of a call that runs beside another
MaxClients == 2     \* the inner clients of a Cluster
MaxCallers == 2     \* the goroutines that call the Cluster's SetChannel

\* ------------------------------------------------------- program constants
defaultMaxContentLength   == 1000000
defaultRetries            == 2
StatusOK                  == 200
StatusBadRequest          == 400
StatusSuccess             == 0
StatusInvalidToken        == 4
StatusInternalServerError == 8
StatusServerBusy          == 9
StatusChannelMissing      == 10
MaxScanTokenSize          == 65536

\* ------------------------------------------------------------ byte strings
LF == "LF"
CR == "CR"

RECURSIVE RunsLen(_)
\* len() of a byte string
RunsLen(s) == IF s = <<>> THEN 0 ELSE Head(s).n + RunsLen(Tail(s))

RECURSIVE Norm(_)
\* canonical form of a byte string: adjacent runs of one byte merged
Norm(s) ==
    IF Len(s) <= 1 THEN s
    ELSE LET t == Norm(Tail(s)) IN
         IF Head(s).b = Head(t).b
         THEN <<[b |-> Head(s).b, n |-> Head(s).n + Head(t).n]>> \o Tail(t)
         ELSE <<Head(s)>> \o t

\* mutant: the new bytes land in front of the buffered ones
BufferWritePrepends(buffer, p) == Norm(p \o buffer)

\* bytes.Buffer.Write / WriteByte: append at the end
BufferWrite(buffer, p) == Norm(buffer \o p)

RECURSIVE Concat(_)
\* the concatenation of a sequence of byte strings
Concat(ss) == IF ss = <<>> THEN <<>> ELSE Norm(Head(ss) \o Concat(Tail(ss)))

\* ------------------------------------------------------------------ events
Nil == "nil"
Payloads == {"a"}
\* a payload json.Marshal has no encoding for (a channel, a function)
Unencodable == "chan"

\* An event: its payload byte and payload length; Nil payload = nothing set.
Events == {[Event |-> Nil, n |-> 0]} \cup [Event : Payloads, n : 1..MaxSize]

\* Event.empty
empty(event) == event.Event = Nil

\* also the events json.Marshal fails on
AnyEvents == Events \cup {[Event |-> Unencodable, n |-> 0]}

\* data, _ := json.Marshal(event): the payload framed by an opening and a
\* closing byte; no bytes when the payload cannot be encoded (the error of
\* json.Marshal is assigned to the blank identifier)
Marshal(event) ==
    IF event.Event = Unencodable THEN <<>>
    ELSE <<[b |-> "{", n |-> 1], [b |-> event.Event, n |-> event.n], [b |-> "}", n |-> 1]>>

RECURSIVE SeqsUpTo(_, _)
\* all sequences over S of length <= k
SeqsUpTo(S, k) ==
    IF k = 0 THEN {<<>>}
    ELSE LET R == SeqsUpTo(S, k - 1) IN
         R \cup {Append(s, x) : s \in {r \in R : Len(r) = k - 1}, x \in S}

EventLists == SeqsUpTo(Events, MaxEvents)
AnyEventLists == SeqsUpTo(AnyEvents, MaxEvents)

\* ------------------------------------------------------------- raw streams
RawRuns ==
    [b : {"a"}, n : (1..MaxSize) \cup {MaxScanTokenSize - 1, MaxScanTokenSize}]
    \cup [b : {LF}, n : 1..2] \cup [b : {CR}, n : {1}]

\* the readers handed to WriteRaw: canonical byte strings of at most MaxRuns runs
Streams == {s \in SeqsUpTo(RawRuns, MaxRuns) : Norm(s) = s}

\* readers made of whole lines: each line some bytes and its newline, the bytes
\* short or as many as the scanner's token limit
LineLengths == (1..MaxSize) \cup {MaxScanTokenSize}
RECURSIVE LinesOf(_)
LinesOf(ns) ==
    IF ns = <<>> THEN <<>>
    ELSE <<[b |-> "a", n |-> Head(ns)], [b |-> LF, n |-> 1]>> \o LinesOf(Tail(ns))
LineStreams == {LinesOf(ns) : ns \in SeqsUpTo(LineLengths, MaxLines)}

\* readers of up to MaxLines short lines
ShortStreams == {LinesOf(ns) : ns \in SeqsUpTo(1..MaxSize, MaxLines)}

\* the text and the maxima of TestBreakStream: two lines of 14 bytes, the
\* second one without a newline
TestText == <<[b |-> "a", n |-> 14], [b |-> LF, n |-> 1], [b |-> "a", n |-> 14]>>
TestSizes == {13, 14, 15, 28, 5, 30}

\* dropCR of bufio.ScanLines: one trailing carriage return is removed
dropCR(data) ==
    IF data # <<>> /\ data[Len(data)].b = CR
    THEN IF data[Len(data)].n = 1
         THEN SubSeq(data, 1, Len(data) - 1)
         ELSE [data EXCEPT ![Len(data)].n = @ - 1]
    ELSE data

RECURSIVE UpToNewline(_, _)
\* the bytes before the first newline of `rest`, and what follows that newline
UpToNewline(rest, cur) ==
    IF rest = <<>> THEN [found |-> FALSE, line |-> cur, rest |-> <<>>]
    ELSE IF Head(rest).b = LF
         THEN [found |-> TRUE, line |-> cur,
               rest |-> IF Head(rest).n = 1 THEN Tail(rest)
                        ELSE <<[b |-> LF, n |-> Head(rest).n - 1]>> \o Tail(rest)]
         ELSE UpToNewline(Tail(rest), Append(cur, Head(rest)))

\* scanner.Scan() followed by scanner.Bytes(), on the unread input `rest`:
\* bufio.ScanLines splits at newlines and drops one trailing CR; a final line
\* without newline is a token when it is not empty; a line that does not fit
\* the scanner's buffer (MaxScanTokenSize bytes without a newline) ends the
\* scan with ErrTooLong, which Scan reports as false.
Scan(rest) ==
    LET t == UpToNewline(rest, <<>>) IN
    IF rest = <<>> \/ RunsLen(t.line) >= MaxScanTokenSize
    THEN [ok |-> FALSE, token |-> <<>>, rest |-> rest]
    ELSE [ok |-> TRUE, token |-> dropCR(t.line), rest |-> t.rest]

\* --------------------------------------------------------------- responses
\* mutant: an invalid token is retried too
retriableAlsoInvalidToken(code) ==
    code = StatusServerBusy \/ code = StatusInternalServerError \/ code = StatusInvalidToken

\* retriable (errors.go)
retriable(code) == code = StatusServerBusy \/ code = StatusInternalServerError

Codes == {StatusSuccess, StatusInvalidToken, StatusInternalServerError,
          StatusServerBusy, StatusChannelMissing}

\* what the endpoint sends back: a JSON object {"text":..,"code":..}, or bytes
\* that are no JSON
Bodies == [json : {TRUE}, text : {"t"}, code : Codes]
          \cup {[json |-> FALSE, text |-> "", code |-> 0]}

\* responseFrom: json.Unmarshal into a zero Response, its error dropped
responseFrom(body) ==
    IF body.json THEN [Text |-> body.text, Code |-> body.code]
    ELSE [Text |-> "", Code |-> 0]

NoBody == [json |-> FALSE, text |-> "", code |-> 0]

\* the outcomes of one request attempt: httpClient.Do fails, ioutil.ReadAll
\* fails, or a status and a body arrive
Outcomes ==
    {[err |-> "Do", status |-> 0, body |-> NoBody]}
    \cup [err : {"ReadAll"}, status : {StatusOK}, body : {NoBody}]
    \cup [err : {"none"}, status : {StatusOK, StatusBadRequest}, body : Bodies]

\* the answers of an endpoint that keeps to the protocol, and a failed connection
Answer(status, code) ==
    [err |-> "none", status |-> status, body |-> [json |-> TRUE, text |-> "t", code |-> code]]
PlainOutcomes ==
    {[err |-> "Do", status |-> 0, body |-> NoBody],
     Answer(StatusOK, StatusSuccess),
     Answer(StatusBadRequest, StatusInvalidToken),
     Answer(StatusBadRequest, StatusServerBusy)}

\* ------------------------------------------------------------------- state
VARIABLES
    serverURL,   \* Client.serverURL, fixed by NewClient
    hecRetries,  \* Client.retries
    maxLength,   \* Client.maxLength
    pc,          \* where the caller is: "idle", inside a Write* loop, inside write
    op,          \* the Write* operation running or last run ("none" before any)
    events,      \* WriteBatch's argument (WriteEvent's, as a one-element list)
    index,       \* WriteBatch: index of the range loop
    buffer,      \* WriteBatch: buffer
    reader,      \* WriteRaw's argument
    scanner,     \* WriteRaw: the input the scanner has not read yet
    lineNo,      \* WriteRaw: lineNo
    line,        \* WriteRaw: scanner.Bytes()
    buf,         \* WriteRaw: buf
    tooLongs,    \* WriteBatch, WriteRaw: tooLongs
    data,        \* write: data
    retries,     \* write: retries
    site,        \* write: the call site it returns to
    res,         \* write: the outcome of the last attempt
    err,         \* write: its return value
    sent,        \* history: per write call of the running Write* call its body, the
                 \* requests made (attempts), the sleeps (waits), what came back
                 \* (answers) and what write returned (err)
    ret,         \* the return value of the last Write* call
    other,       \* the call of a second goroutine on the same Client, while the
                 \* first one runs: its locals, history and return value
    channels,    \* Cluster: the channel of each inner client, clients[i].channel
    mtx,         \* Cluster: mtx, 0 when unlocked, else the goroutine holding it
    setter,      \* Cluster: per goroutine, where it is in SetChannel, its range
                 \* index, its argument, and whether it found mtx locked
    picked       \* Cluster: the inner client the last Write* call picked and the
                 \* channel it carried then

config    == <<serverURL, hecRetries, maxLength>>
batchVars == <<index, buffer>>
rawVars   == <<scanner, lineNo, line, buf>>
writeVars == <<data, retries, site, res, err>>
vars == <<serverURL, hecRetries, maxLength, pc, op, events, index, buffer, reader,
          scanner, lineNo, line, buf, tooLongs, data, retries, site, res, err,
          sent, ret, other, channels, mtx, setter, picked>>
clusterVars == <<channels, mtx, setter, picked>>
beside == <<other, channels, mtx, setter, picked>>
clientVars == <<serverURL, hecRetries, maxLength, pc, op, events, index, buffer, reader,
                scanner, lineNo, line, buf, tooLongs, data, retries, site, res, err,
                sent, ret, other>>

\* return values
NoReturn == [kind |-> "none"]
RetNil == [kind |-> "nil"]
ErrEventTooLong(indexes) == [kind |-> "ErrEventTooLong", indexes |-> indexes]
\* ErrEventTooLong.Error: the words of the message, and the numbers put in for
\* the %s of its format
Error(e) ==
    IF e.indexes = <<>>
    THEN [words |-> <<"Event", "length", "is", "too", "long">>, numbers |-> <<>>]
    ELSE [words |-> <<"Events", "(%s)", "length", "are", "too", "long">>,
          numbers |-> e.indexes]
ResponseErr(response) == [kind |-> "Response", Text |-> response.Text, Code |-> response.Code]
NetErr(from) == [kind |-> "error", from |-> from]

NoOutcome == [err |-> "none", status |-> 0, body |-> NoBody]

URLs == {"http://host:8088", ":"}

\* http.NewRequest: fails on a URL that does not parse
NewRequestOK(url) == url # ":"

\* Cluster (cluster.go): the channel NewCluster draws, the channels handed to
\* SetChannel, the goroutines calling it
NewV4 == "uuid"
ChannelArgs == {"c1", "c2"}
Callers == 1..MaxCallers
NotSetting == [pc |-> "idle", i |-> 0, channel |-> NewV4, waited |-> FALSE]

\* a goroutine that has made no call yet
NoCall ==
    [pc |-> "idle", op |-> "none", events |-> <<>>, index |-> 0, buffer |-> <<>>,
     reader |-> <<>>, scanner |-> <<>>, lineNo |-> 0, line |-> <<>>, buf |-> <<>>,
     tooLongs |-> <<>>, data |-> <<>>, retries |-> 0, site |-> "none",
     res |-> NoOutcome, err |-> NoReturn, sent |-> <<>>, ret |-> NoReturn]

\* NewClient
Init ==
    /\ serverURL \in URLs
    /\ hecRetries = defaultRetries
    /\ maxLength = defaultMaxContentLength
    /\ pc = "idle" /\ op = "none"
    /\ events = <<>> /\ index = 0 /\ buffer = <<>>
    /\ reader = <<>> /\ scanner = <<>> /\ lineNo = 0 /\ line = <<>> /\ buf = <<>>
    /\ tooLongs = <<>>
    /\ data = <<>> /\ retries = 0 /\ site = "none" /\ res = NoOutcome /\ err = NoReturn
    /\ sent = <<>> /\ ret = NoReturn
    /\ other = NoCall
    /\ channels = [i \in 1..MaxClients |-> NewV4]
    /\ mtx = 0
    /\ setter = [c \in Callers |-> NotSetting]
    /\ picked = [client |-> 0, channel |-> NewV4]

\* the locals of a finished call are gone
ClearLocals ==
    /\ index' = 0 /\ buffer' = <<>>
    /\ scanner' = <<>> /\ lineNo' = 0 /\ line' = <<>> /\ buf' = <<>>
    /\ tooLongs' = <<>>
    /\ data' = <<>> /\ retries' = 0 /\ site' = "none" /\ res' = NoOutcome /\ err' = NoReturn

\* a Write* call returns `value` to the caller
Return(value) ==
    /\ pc' = "idle" /\ ret' = value
    /\ ClearLocals
    /\ UNCHANGED <<config, beside, op, events, reader, sent>>

\* the caller is between two calls and holds no record of an earlier one
Fresh == pc = "idle" /\ op = "none"

\* the caller has looked at the return value of the last call and drops the
\* record of it
Forget ==
    /\ pc = "idle" /\ op # "none"
    /\ op' = "none" /\ events' = <<>> /\ reader' = <<>> /\ sent' = <<>> /\ ret' = NoReturn
    /\ UNCHANGED <<config, beside, pc, batchVars, rawVars, tooLongs, writeVars>>

SetMaxRetry(n) ==
    /\ Fresh
    /\ hecRetries' = n
    /\ UNCHANGED <<beside, serverURL, maxLength, pc, op, events, reader, batchVars, rawVars,
                   tooLongs, writeVars, sent, ret>>

SetMaxContentLength(size) ==
    /\ Fresh
    /\ maxLength' = size
    /\ UNCHANGED <<beside, serverURL, hecRetries, pc, op, events, reader, batchVars, rawVars,
                   tooLongs, writeVars, sent, ret>>

\* ------------------------------------------------------------------- write
\* the history entry of a write call that has made no request yet
Entry(body) ==
    [body |-> body, attempts |-> 0, waits |-> 0, answers |-> <<>>, err |-> NoReturn]

\* the history when the running write call makes a request answered by o, and when
\* it returns e
Asked(o) == [sent EXCEPT ![Len(sent)].attempts = @ + 1,
                         ![Len(sent)].answers = Append(@, o)]
Returned(h, e) == [h EXCEPT ![Len(h)].err = e]

\* mutant: the counter goes on from where the body before left it
CallWriteKeepsCount(body, s) ==
    /\ pc' = "write"
    /\ data' = body /\ site' = s /\ res' = NoOutcome /\ err' = NoReturn
    /\ retries' = IF sent = <<>> THEN 0 ELSE sent[Len(sent)].waits
    /\ sent' = Append(sent, Entry(body))

\* hec.write(endpoint, body) is entered from call site s
CallWrite(body, s) ==
    /\ pc' = "write"
    /\ data' = body /\ retries' = 0 /\ site' = s /\ res' = NoOutcome /\ err' = NoReturn
    /\ sent' = Append(sent, Entry(body))

\* mutant: only a failed httpClient.Do counts as a transport error
transportFailedOnDoOnly(o) == o.err = "Do"

\* if err != nil, after httpClient.Do and after ioutil.ReadAll
transportFailed(o) == o.err # "none"

\* mutant: only a server-side status counts as a failure
failedOnServerStatusOnly(status) == status >= 500

\* if res.StatusCode != http.StatusOK
failed(status) == status # StatusOK

\* mutant: the retry limit is not looked at
mayRetryWhileRetriable(response) == retriable(response.Code)

\* mutant: one retry more than the limit
mayRetryOnceMore(response) == retriable(response.Code) /\ retries <= hecRetries

\* if retriable(response.Code) && retries < hec.retries
mayRetry(response) == retriable(response.Code) /\ retries < hecRetries

\* One pass from RETRY to a return or to the sleep before the next pass.
Attempt(answers) ==
    /\ pc = "write"
    /\ IF ~NewRequestOK(serverURL)
       THEN /\ err' = NetErr("NewRequest") /\ pc' = "writeRet"
            /\ sent' = Returned(sent, NetErr("NewRequest"))
            /\ UNCHANGED <<res, retries>>
       ELSE \E o \in answers :
            /\ res' = o
            /\ IF transportFailed(o)
               THEN /\ err' = NetErr(o.err) /\ pc' = "writeRet"
                    /\ sent' = Returned(Asked(o), NetErr(o.err))
                    /\ UNCHANGED retries
               ELSE IF failed(o.status)
               THEN LET response == responseFrom(o.body) IN
                    IF mayRetry(response)
                    THEN /\ retries' = retries + 1 /\ pc' = "sleep"
                         /\ sent' = Asked(o)
                         /\ UNCHANGED err
                    ELSE /\ err' = ResponseErr(response) /\ pc' = "writeRet"
                         /\ sent' = Returned(Asked(o), ResponseErr(response))
                         /\ UNCHANGED retries
               ELSE /\ err' = RetNil /\ pc' = "writeRet"
                    /\ sent' = Returned(Asked(o), RetNil)
                    /\ UNCHANGED retries
    /\ UNCHANGED <<config, beside, op, events, reader, batchVars, rawVars, tooLongs,
                   data, site, ret>>

\* time.Sleep(retryWaitTime); goto RETRY
Sleep ==
    /\ pc = "sleep"
    /\ sent' = [sent EXCEPT ![Len(sent)].waits = @ + 1]
    /\ pc' = "write" /\ res' = NoOutcome
    /\ UNCHANGED <<config, beside, op, events, reader, batchVars, rawVars, tooLongs,
                   data, retries, site, err, ret>>

\* -------------------------------------------------------------- WriteEvent
\* mutant: nothing counts as too long
tooLongNever(bytes) == FALSE

\* mutant: data of exactly maxLength bytes counts as too long
tooLongAtLimit(bytes) == RunsLen(bytes) >= maxLength

\* if len(data) > hec.maxLength
tooLong(bytes) == RunsLen(bytes) > maxLength

WriteEvent(event) ==
    /\ Fresh
    /\ op' = "WriteEvent" /\ events' = <<event>> /\ reader' = <<>>
    /\ UNCHANGED <<config, beside, batchVars, rawVars, tooLongs>>
    /\ IF empty(event)
       THEN /\ pc' = "idle" /\ ret' = RetNil /\ sent' = <<>>
            /\ UNCHANGED writeVars
       ELSE IF tooLong(Marshal(event))
       THEN /\ pc' = "idle" /\ ret' = ErrEventTooLong(<<>>) /\ sent' = <<>>
            /\ UNCHANGED writeVars
       ELSE /\ ret' = NoReturn
            /\ data' = Marshal(event) /\ retries' = 0 /\ site' = "WriteEvent"
            /\ res' = NoOutcome /\ err' = NoReturn
            /\ pc' = "write"
            /\ sent' = <<Entry(Marshal(event))>>

\* return hec.write(endpoint, data)
WriteEventReturn ==
    /\ pc = "writeRet" /\ site = "WriteEvent"
    /\ Return(err)

\* -------------------------------------------------------------- WriteBatch
\* mutant: the bytes about to be added are left out of the test
batchFullIgnoresData(bytes) == RunsLen(buffer) > maxLength

\* mutant: the buffer is sent as soon as the new bytes would fill it to the limit
batchFullAtLimit(bytes) == RunsLen(buffer) + RunsLen(bytes) >= maxLength

\* if buffer.Len()+len(data) > hec.maxLength
batchFull(bytes) == RunsLen(buffer) + RunsLen(bytes) > maxLength

\* mutant: positions counted from 1
appendTooLongFromOne(list, position) == Append(list, position + 1)

\* tooLongs = append(tooLongs, index)
appendTooLong(list, position) == Append(list, position)

\* return &ErrEventTooLong{tooLongs} when there are any, else nil
tooLongsOrNil == IF Len(tooLongs) > 0 THEN ErrEventTooLong(tooLongs) ELSE RetNil

WriteBatch(list) ==
    /\ Fresh
    /\ op' = "WriteBatch" /\ events' = list /\ reader' = <<>> /\ sent' = <<>>
    /\ IF Len(list) = 0
       THEN /\ pc' = "idle" /\ ret' = RetNil
       ELSE /\ pc' = "batchLoop" /\ ret' = NoReturn
    /\ UNCHANGED <<config, beside, batchVars, rawVars, tooLongs, writeVars>>

\* one iteration of the range loop, up to its end or to the call of write
BatchStep ==
    /\ pc = "batchLoop" /\ index < Len(events)
    /\ LET event == events[index + 1] IN
       IF empty(event)
       THEN /\ index' = index + 1 /\ UNCHANGED <<pc, buffer, tooLongs, writeVars, sent>>
       ELSE IF tooLong(Marshal(event))
       THEN /\ tooLongs' = appendTooLong(tooLongs, index)
            /\ index' = index + 1 /\ UNCHANGED <<pc, buffer, writeVars, sent>>
       ELSE IF batchFull(Marshal(event))
       THEN /\ CallWrite(buffer, "batchFull")
            /\ UNCHANGED <<index, buffer, tooLongs>>
       ELSE /\ buffer' = BufferWrite(buffer, Marshal(event))
            /\ index' = index + 1 /\ UNCHANGED <<pc, tooLongs, writeVars, sent>>
    /\ UNCHANGED <<config, beside, op, events, reader, rawVars, ret>>

\* mutant: the error of write is dropped and the loop goes on
BatchFullReturnDropsError ==
    /\ pc = "writeRet" /\ site = "batchFull"
    /\ buffer' = BufferWrite(<<>>, Marshal(events[index + 1]))
    /\ index' = index + 1
    /\ pc' = "batchLoop"
    /\ data' = <<>> /\ retries' = 0 /\ site' = "none"
    /\ res' = NoOutcome /\ err' = NoReturn
    /\ UNCHANGED <<config, beside, op, events, reader, rawVars, tooLongs, sent, ret>>

\* write returned inside the loop: return its error, or reset the buffer and
\* write the pending event into it
BatchFullReturn ==
    /\ pc = "writeRet" /\ site = "batchFull"
    /\ IF err # RetNil
       THEN Return(err)
       ELSE /\ buffer' = BufferWrite(<<>>, Marshal(events[index + 1]))
            /\ index' = index + 1
            /\ pc' = "batchLoop"
            /\ data' = <<>> /\ retries' = 0 /\ site' = "none"
            /\ res' = NoOutcome /\ err' = NoReturn
            /\ UNCHANGED <<config, beside, op, events, reader, rawVars, tooLongs, sent, ret>>

\* mutant: the buffer is sent whether or not it holds anything
BatchEndAlwaysWrites ==
    /\ pc = "batchLoop" /\ index = Len(events)
    /\ CallWrite(buffer, "batchEnd")
    /\ UNCHANGED <<config, beside, op, events, reader, batchVars, rawVars, tooLongs, ret>>

\* after the loop: send what is left in the buffer, or return
BatchEnd ==
    /\ pc = "batchLoop" /\ index = Len(events)
    /\ IF RunsLen(buffer) > 0
       THEN /\ CallWrite(buffer, "batchEnd")
            /\ UNCHANGED <<config, beside, op, events, reader, batchVars, rawVars, tooLongs, ret>>
       ELSE Return(tooLongsOrNil)

BatchEndReturn ==
    /\ pc = "writeRet" /\ site = "batchEnd"
    /\ IF err # RetNil THEN Return(err) ELSE Return(tooLongsOrNil)

\* ---------------------------------------------------------------- WriteRaw
\* if buf.Len()+len(scanner.Bytes())+1 > hec.maxLength
rawFull(bytes) == RunsLen(buf) + RunsLen(bytes) + 1 > maxLength

Newline == <<[b |-> LF, n |-> 1]>>

WriteRaw(stream) ==
    /\ Fresh
    /\ op' = "WriteRaw" /\ reader' = stream /\ events' = <<>> /\ sent' = <<>>
    /\ scanner' = stream /\ lineNo' = 1
    /\ pc' = "rawLoop" /\ ret' = NoReturn
    /\ UNCHANGED <<config, beside, batchVars, line, buf, tooLongs, writeVars>>

\* one iteration of the scan loop, up to its end or to the call of write
RawStep ==
    /\ pc = "rawLoop" /\ Scan(scanner).ok
    /\ LET t == Scan(scanner) IN
       /\ scanner' = t.rest
       /\ line' = t.token
       /\ IF tooLong(t.token)
          THEN /\ tooLongs' = appendTooLong(tooLongs, lineNo)
               /\ lineNo' = lineNo + 1 /\ UNCHANGED <<pc, buf, writeVars, sent>>
          ELSE IF rawFull(t.token)
          THEN /\ CallWrite(buf, "rawFull")
               /\ UNCHANGED <<lineNo, buf, tooLongs>>
          ELSE /\ buf' = BufferWrite(BufferWrite(buf, t.token), Newline)
               /\ lineNo' = lineNo + 1 /\ UNCHANGED <<pc, tooLongs, writeVars, sent>>
    /\ UNCHANGED <<config, beside, op, events, reader, batchVars, ret>>

RawFullReturn ==
    /\ pc = "writeRet" /\ site = "rawFull"
    /\ IF err # RetNil
       THEN Return(err)
       ELSE /\ buf' = BufferWrite(BufferWrite(<<>>, line), Newline)
            /\ lineNo' = lineNo + 1
            /\ pc' = "rawLoop"
            /\ data' = <<>> /\ retries' = 0 /\ site' = "none"
            /\ res' = NoOutcome /\ err' = NoReturn
            /\ UNCHANGED <<config, beside, op, events, reader, batchVars, scanner, line,
                           tooLongs, sent, ret>>

\* scanner.Scan() returned false: send what is left in the buffer, or return
RawEnd ==
    /\ pc = "rawLoop" /\ ~Scan(scanner).ok
    /\ IF RunsLen(buf) > 0
       THEN /\ CallWrite(buf, "rawEnd")
            /\ UNCHANGED <<config, beside, op, events, reader, batchVars, rawVars, tooLongs, ret>>
       ELSE Return(tooLongsOrNil)

RawEndReturn ==
    /\ pc = "writeRet" /\ site = "rawEnd"
    /\ IF err # RetNil THEN Return(err) ELSE Return(tooLongsOrNil)

\* ------------------------------------------------------------ two goroutines
\* the call of the goroutine that is running, as a record
Running ==
    [pc |-> pc, op |-> op, events |-> events, index |-> index, buffer |-> buffer,
     reader |-> reader, scanner |-> scanner, lineNo |-> lineNo, line |-> line,
     buf |-> buf, tooLongs |-> tooLongs, data |-> data, retries |-> retries,
     site |-> site, res |-> res, err |-> err, sent |-> sent, ret |-> ret]

\* mutant: buffer and buf are kept in one place for both goroutines
SwitchSharingBuffers ==
    /\ Running # other
    /\ other' = Running
    /\ pc' = other.pc /\ op' = other.op /\ events' = other.events
    /\ index' = other.index
    /\ reader' = other.reader /\ scanner' = other.scanner /\ lineNo' = other.lineNo
    /\ line' = other.line /\ tooLongs' = other.tooLongs
    /\ data' = other.data /\ retries' = other.retries /\ site' = other.site
    /\ res' = other.res /\ err' = other.err /\ sent' = other.sent /\ ret' = other.ret
    /\ UNCHANGED <<config, clusterVars, buffer, buf>>

\* The scheduler takes the running goroutine off and puts the other one on.
\* Arguments, locals and return value of a call (hec.go:302-340, 350-382,
\* 399-431) belong to the goroutine; the Client's fields belong to both.
Switch ==
    /\ Running # other
    /\ other' = Running
    /\ pc' = other.pc /\ op' = other.op /\ events' = other.events
    /\ index' = other.index /\ buffer' = other.buffer
    /\ reader' = other.reader /\ scanner' = other.scanner /\ lineNo' = other.lineNo
    /\ line' = other.line /\ buf' = other.buf /\ tooLongs' = other.tooLongs
    /\ data' = other.data /\ retries' = other.retries /\ site' = other.site
    /\ res' = other.res /\ err' = other.err /\ sent' = other.sent /\ ret' = other.ret
    /\ UNCHANGED <<config, clusterVars>>

\* what the two goroutines are given
\* MaxShared items each: all of them short, or one of them of the largest size
\* (an event that is then oversize, a line that then just fits)
SharedLists ==
    {[i \in 1..MaxShared |-> [Event |-> "a", n |-> IF i = k THEN MaxSize ELSE 1]] :
        k \in 0..MaxShared}
SharedStreams ==
    {LinesOf([i \in 1..MaxShared |-> IF i = k THEN MaxSize ELSE 1]) : k \in 0..MaxShared}
SharedSizes == {MaxSize + 1}
SharedOutcomes ==
    {Answer(StatusOK, StatusSuccess), Answer(StatusBadRequest, StatusServerBusy)}

\* ----------------------------------------------------------------- Cluster
\* goroutine c calls Cluster.SetChannel(channel)
ClusterSetChannel(c, channel) ==
    /\ setter[c].pc = "idle"
    /\ setter' = [setter EXCEPT ![c] = [pc |-> "lock", i |-> 0, channel |-> channel,
                                         waited |-> mtx # 0]]
    /\ UNCHANGED <<clientVars, channels, mtx, picked>>

\* mutant: the lock is taken whether or not it is free
LockAnyway(c) ==
    /\ setter[c].pc = "lock"
    /\ mtx' = c
    /\ setter' = [setter EXCEPT ![c].pc = "loop", ![c].i = 1]
    /\ UNCHANGED <<clientVars, channels, picked>>

\* c.mtx.Lock(): goes through when the mutex is free
Lock(c) ==
    /\ setter[c].pc = "lock" /\ mtx = 0
    /\ mtx' = c
    /\ setter' = [setter EXCEPT ![c].pc = "loop", ![c].i = 1]
    /\ UNCHANGED <<clientVars, channels, picked>>

\* one iteration of the range loop: client.SetChannel(channel)
SetInner(c) ==
    /\ setter[c].pc = "loop" /\ setter[c].i <= Len(channels)
    /\ channels' = [channels EXCEPT ![setter[c].i] = setter[c].channel]
    /\ setter' = [setter EXCEPT ![c].i = @ + 1]
    /\ UNCHANGED <<clientVars, mtx, picked>>

\* c.mtx.Unlock() and return
Unlock(c) ==
    /\ setter[c].pc = "loop" /\ setter[c].i > Len(channels)
    /\ mtx' = 0
    /\ setter' = [setter EXCEPT ![c].pc = "idle", ![c].i = 0]
    /\ UNCHANGED <<clientVars, channels, picked>>

\* pick(c.clients) of a Write* call: no lock is taken, the inner client is used
\* with the channel it carries at that moment
Pick(k) ==
    /\ picked' = [client |-> k, channel |-> channels[k]]
    /\ UNCHANGED <<clientVars, channels, mtx, setter>>

\* ------------------------------------------------------------ specification
SizeArgs == (-1)..MaxLen
RetryArgs == (-1)..MaxRetry

\* the transport, shared by every Write* operation
Transport(answers) == Attempt(answers) \/ Sleep \/ Forget

NextEvent ==
    \/ Fresh /\ \E n \in RetryArgs : SetMaxRetry(n)
    \/ Fresh /\ \E size \in SizeArgs : SetMaxContentLength(size)
    \/ Fresh /\ \E event \in Events : WriteEvent(event)
    \/ WriteEventReturn
    \/ Transport(Outcomes)

Next ==
    \/ Fresh /\ \E size \in SizeArgs : SetMaxContentLength(size)
    \/ Fresh /\ \E list \in EventLists : WriteBatch(list)
    \/ BatchStep
    \/ BatchFullReturn
    \/ BatchEnd
    \/ BatchEndReturn
    \/ Fresh /\ \E stream \in Streams : WriteRaw(stream)
    \/ RawStep
    \/ RawFullReturn
    \/ RawEnd
    \/ RawEndReturn
    \/ Transport(PlainOutcomes)

\* WriteBatch and WriteRaw, the latter also on readers of up to MaxLines whole lines
NextLines ==
    \/ Next
    \/ Fresh /\ \E stream \in LineStreams : WriteRaw(stream)

\* WriteEvent and WriteBatch, also on events that cannot be encoded
NextCalls ==
    \/ Fresh /\ \E size \in SizeArgs : SetMaxContentLength(size)
    \/ Fresh /\ \E event \in AnyEvents : WriteEvent(event)
    \/ WriteEventReturn
    \/ Fresh /\ \E list \in AnyEventLists : WriteBatch(list)
    \/ BatchStep
    \/ BatchFullReturn
    \/ BatchEnd
    \/ BatchEndReturn
    \/ Transport(PlainOutcomes)

\* Two goroutines, each making one WriteBatch or WriteRaw call on the same
\* Client; the size limit is set before either call starts.
NextTwo ==
    \/ Fresh /\ other = NoCall /\ \E size \in SharedSizes : SetMaxContentLength(size)
    \/ Fresh /\ \E list \in SharedLists : WriteBatch(list)
    \/ BatchStep
    \/ BatchFullReturn
    \/ BatchEnd
    \/ BatchEndReturn
    \/ Fresh /\ \E stream \in SharedStreams : WriteRaw(stream)
    \/ RawStep
    \/ RawFullReturn
    \/ RawEnd
    \/ RawEndReturn
    \/ Attempt(SharedOutcomes)
    \/ Sleep
    \/ Switch

\* WriteRaw on short lines and on the text of TestBreakStream, under small
\* size limits and under the maxima of that test
NextBreak ==
    \/ Fresh /\ \E size \in (1..MaxLen) \cup TestSizes : SetMaxContentLength(size)
    \/ Fresh /\ \E stream \in ShortStreams \cup {TestText} : WriteRaw(stream)
    \/ RawStep
    \/ RawFullReturn
    \/ RawEnd
    \/ RawEndReturn
    \/ Transport(PlainOutcomes)

\* a Cluster whose SetChannel is called from several goroutines while Write*
\* calls pick inner clients
NextCluster ==
    \/ \E c \in Callers, channel \in ChannelArgs : ClusterSetChannel(c, channel)
    \/ \E c \in Callers : Lock(c)
    \/ \E c \in Callers : SetInner(c)
    \/ \E c \in Callers : Unlock(c)
    \/ \E k \in 1..MaxClients : Pick(k)

\* WriteEvent against an endpoint that may answer anything, under any retry limit
SpecEvent == Init /\ [][NextEvent]_vars

\* WriteBatch and WriteRaw under the default retry limit
Spec == Init /\ [][Next]_vars

SpecLines == Init /\ [][NextLines]_vars

SpecCalls == Init /\ [][NextCalls]_vars

SpecTwo == Init /\ [][NextTwo]_vars

SpecBreak == Init /\ [][NextBreak]_vars

SpecCluster == Init /\ [][NextCluster]_vars

\* what an endpoint may answer to one request of a call that is to terminate:
\* success, a retriable code, a permanent code, or no answer at all
LiveOutcomes == PlainOutcomes

\* the steps of a running Write* call, up to its return
CallSteps ==
    \/ WriteEventReturn
    \/ BatchStep
    \/ BatchFullReturn
    \/ BatchEnd
    \/ BatchEndReturn
    \/ RawStep
    \/ RawFullReturn
    \/ RawEnd
    \/ RawEndReturn
    \/ Attempt(LiveOutcomes)
    \/ Sleep

\* WriteEvent, WriteBatch and WriteRaw on one Client, under any retry limit
NextLive ==
    \/ Fresh /\ \E n \in RetryArgs : SetMaxRetry(n)
    \/ Fresh /\ \E size \in SharedSizes : SetMaxContentLength(size)
    \/ Fresh /\ \E event \in Events : WriteEvent(event)
    \/ Fresh /\ \E list \in SharedLists : WriteBatch(list)
    \/ Fresh /\ \E stream \in SharedStreams : WriteRaw(stream)
    \/ CallSteps
    \/ Forget

\* The goroutine inside a Write* call keeps running: the Go scheduler does not
\* leave a runnable goroutine waiting forever, time.Sleep returns, and every
\* request attempt returns.  Nothing obliges the caller to start a call.
SpecLive == Init /\ [][NextLive]_vars /\ WF_vars(CallSteps)

\* ------------------------------------------------------------------ claims
\* what the claims speak about, read off the arguments and the history

\* the bodies handed to write by the running or last Write* call, in order
SentBodies == [i \in 1..Len(sent) |-> sent[i].body]

\* the last Write* call has returned
CallReturned(name) == pc = "idle" /\ op = name

\* ... and every transmission of it succeeded: it returned nil or the oversize list
Succeeded(name) == CallReturned(name) /\ ret.kind \in {"nil", "ErrEventTooLong"}

RECURSIVE Ascending(_, _)
\* the members of the finite set S of integers >= lo, in ascending order
Ascending(S, lo) ==
    IF S = {} THEN <<>>
    ELSE IF lo \in S THEN <<lo>> \o Ascending(S \ {lo}, lo + 1)
    ELSE Ascending(S, lo + 1)

RECURSIVE WholeIn(_, _)
\* the bodies are, in order, concatenations of consecutive items: every item
\* lies whole inside one body, none is left out, repeated or moved
WholeIn(bodies, items) ==
    IF bodies = <<>> THEN items = <<>>
    ELSE \E k \in 0..Len(items) :
            /\ Concat(SubSeq(items, 1, k)) = Norm(Head(bodies))
            /\ WholeIn(Tail(bodies), SubSeq(items, k + 1, Len(items)))

\* the 0-based positions of the records of the batch that are not empty and
\* encode to more than maxLength bytes
OversizeEvents ==
    {i \in 0..(Len(events) - 1) :
        ~empty(events[i + 1]) /\ RunsLen(Marshal(events[i + 1])) > maxLength}

\* the encodings, in input order, of the records that are to be transmitted
fits(event) == ~empty(event) /\ RunsLen(Marshal(event)) <= maxLength
RECURSIVE EncodingsOf(_)
EncodingsOf(list) ==
    IF list = <<>> THEN <<>>
    ELSE (IF fits(Head(list)) THEN <<Marshal(Head(list))>> ELSE <<>>)
         \o EncodingsOf(Tail(list))
Transmittable == EncodingsOf(events)

\* C1: every request body WriteBatch hands to write is non-empty and at most
\* maxLength bytes long.
C1_BatchBodiesBounded ==
    op = "WriteBatch" =>
        \A i \in 1..Len(sent) :
            /\ RunsLen(sent[i].body) > 0
            /\ RunsLen(sent[i].body) <= maxLength

\* a batch that was cut into two bodies, one of them exactly maxLength long
C1_Witness ==
    /\ CallReturned("WriteBatch") /\ Len(sent) >= 2
    /\ \E i \in 1..Len(sent) : RunsLen(sent[i].body) = maxLength

\* C2: when every transmission of a WriteBatch call succeeded, the bodies sent,
\* concatenated in order, are the encodings of the non-empty records that fit
\* maxLength, in input order, each whole inside one body, and every body was
\* requested.
C2_BatchBodiesAreTheRecords ==
    Succeeded("WriteBatch") =>
        /\ Concat(SentBodies) = Concat(Transmittable)
        /\ WholeIn(SentBodies, Transmittable)
        /\ \A i \in 1..Len(sent) : sent[i].attempts >= 1

\* a successful batch of two bodies that skipped a record
C2_Witness ==
    /\ Succeeded("WriteBatch") /\ Len(sent) >= 2
    /\ Len(Transmittable) < Len(events)

\* C3: when every transmission of a WriteBatch call succeeded, it returns
\* ErrEventTooLong exactly when some non-empty record encodes to more than
\* maxLength bytes, with the 0-based input positions of those records in
\* ascending order; otherwise nil.
C3_BatchOversizeIndexes ==
    Succeeded("WriteBatch") =>
        IF OversizeEvents = {} THEN ret = RetNil
        ELSE ret = ErrEventTooLong(Ascending(OversizeEvents, 0))

\* two oversize records reported, the first one after an empty record
C3_Witness ==
    /\ Succeeded("WriteBatch") /\ ret.kind = "ErrEventTooLong"
    /\ Len(ret.indexes) = 2 /\ ret.indexes[1] > 0
    /\ empty(events[1])

\* ---- the transport retrier (checked under SpecEvent)

\* the RemoteResult code an answer carries: the "code" of its JSON body, 0 when
\* the body holds none
CodeOf(o) == IF o.body.json THEN o.body.code ELSE 0

\* a completed exchange with a non-success status and code 8 or 9
RetriableFailure(o) ==
    /\ o.err = "none" /\ o.status # StatusOK
    /\ CodeOf(o) \in {StatusInternalServerError, StatusServerBusy}

Busy == Answer(StatusBadRequest, StatusServerBusy)
Success == Answer(StatusOK, StatusSuccess)

\* the last answer a write call got
LastAnswer(e) == e.answers[Len(e.answers)]

\* C4: with a retry limit R >= 0 a write call makes at most R+1 requests and,
\* once a request was made, has slept exactly attempts-1 times when it returns;
\* busy, busy, success under R >= 2 is a success after 3 requests and 2 sleeps;
\* a call whose last answer is retriable returns only after R+1 requests, all
\* answered retriably, with that last RemoteResult as its error.
C4_BoundedRetry ==
    \A i \in 1..Len(sent) :
        LET e == sent[i]
            R == hecRetries
        IN  R >= 0 =>
            /\ e.attempts <= R + 1
            /\ e.attempts = Len(e.answers)
            /\ (e.err # NoReturn /\ e.attempts >= 1) => e.waits = e.attempts - 1
            /\ (R >= 2 /\ Len(e.answers) >= 3
                  /\ SubSeq(e.answers, 1, 3) = <<Busy, Busy, Success>>)
               => (e.err = RetNil /\ e.attempts = 3 /\ e.waits = 2)
            /\ (e.err # NoReturn /\ e.attempts >= 1 /\ RetriableFailure(LastAnswer(e)))
               => /\ e.attempts = R + 1
                  /\ \A k \in 1..Len(e.answers) : RetriableFailure(e.answers[k])
                  /\ e.err = [kind |-> "Response", Text |-> LastAnswer(e).body.text,
                              Code |-> CodeOf(LastAnswer(e))]
            /\ (e.attempts >= 1 /\ RetriableFailure(LastAnswer(e)) /\ e.attempts < R + 1)
               => (e.err = NoReturn /\ pc \in {"sleep", "write"})

\* busy, busy, success under the retry limit 2
C4_Witness ==
    /\ hecRetries = 2 /\ Len(sent) = 1
    /\ sent[1].answers = <<Busy, Busy, Success>>
    /\ sent[1].err = RetNil /\ sent[1].waits = 2

\* C5: an answer with a non-success status and a code other than 0, 8 and 9
\* ends the write call at once with that RemoteResult as a permanent failure
\* (after one request and no sleep when it is the first answer), whatever the
\* retry limit; every answer that was followed by a retry carried code 8 or 9.
C5_OnlyBusyAndInternalRetried ==
    \A i \in 1..Len(sent) :
        LET e == sent[i] IN
        /\ (e.answers # <<>> /\ LastAnswer(e).err = "none"
              /\ LastAnswer(e).status # StatusOK
              /\ CodeOf(LastAnswer(e)) \notin
                    {StatusSuccess, StatusInternalServerError, StatusServerBusy})
           => /\ e.err = [kind |-> "Response", Text |-> LastAnswer(e).body.text,
                          Code |-> CodeOf(LastAnswer(e))]
              /\ e.waits = Len(e.answers) - 1
              /\ (Len(e.answers) = 1 => (e.attempts = 1 /\ e.waits = 0))
        /\ \A k \in 1..(Len(e.answers) - 1) : RetriableFailure(e.answers[k])
        /\ (i = Len(sent) /\ pc = "sleep") => RetriableFailure(LastAnswer(e))
        /\ e.waits > 0 => RetriableFailure(e.answers[1])

\* "channel missing" on the first request under the retry limit 2
C5_Witness ==
    /\ hecRetries = 2 /\ Len(sent) = 1 /\ pc = "writeRet"
    /\ sent[1].answers = <<Answer(StatusBadRequest, StatusChannelMissing)>>
    /\ err.kind = "Response" /\ err.Code = StatusChannelMissing
    /\ sent[1].waits = 0

\* C6 as claimed: a write call that ends on a completed exchange returns nil
\* exactly when the RemoteResult code of that exchange is 0.
C6_SuccessIffCodeZero ==
    \A i \in 1..Len(sent) :
        LET e == sent[i] IN
        (e.err # NoReturn /\ e.answers # <<>> /\ LastAnswer(e).err = "none")
        => (e.err = RetNil <=> CodeOf(LastAnswer(e)) = StatusSuccess)

\* C6 amended: a write call that ends on a completed exchange returns nil
\* exactly when the HTTP status of that exchange is 200, whatever the body; on
\* any other status it returns the parsed RemoteResult as its error, also when
\* that carries code 0.
C6_SuccessIffStatusOK ==
    \A i \in 1..Len(sent) :
        LET e == sent[i] IN
        (e.err # NoReturn /\ e.answers # <<>> /\ LastAnswer(e).err = "none")
        => /\ e.err = RetNil <=> LastAnswer(e).status = StatusOK
           /\ LastAnswer(e).status # StatusOK
              => e.err = [kind |-> "Response",
                          Text |-> IF LastAnswer(e).body.json
                                   THEN LastAnswer(e).body.text ELSE "",
                          Code |-> CodeOf(LastAnswer(e))]

\* status 400 with code 0 came back and write returned it as an error
C6_Witness ==
    /\ pc = "writeRet" /\ Len(sent) = 1 /\ sent[1].answers # <<>>
    /\ LastAnswer(sent[1]) = Answer(StatusBadRequest, StatusSuccess)
    /\ err.kind = "Response" /\ err.Code = StatusSuccess

\* ---- the raw stream as the claims read it

RECURSIVE SplitLines(_, _)
\* the lines of a byte string: the bytes before each newline, and the bytes
\* after the last newline when there are any
SplitLines(s, cur) ==
    IF s = <<>> THEN (IF cur = <<>> THEN <<>> ELSE <<cur>>)
    ELSE IF Head(s).b = LF
         THEN <<cur>> \o SplitLines(IF Head(s).n = 1 THEN Tail(s)
                                    ELSE <<[b |-> LF, n |-> Head(s).n - 1]>> \o Tail(s),
                                    <<>>)
         ELSE SplitLines(Tail(s), Append(cur, Head(s)))

\* the content of a line: a carriage return before the newline belongs to the
\* terminator
Content(l) ==
    IF l = <<>> \/ l[Len(l)].b # CR THEN l
    ELSE IF l[Len(l)].n > 1 THEN [l EXCEPT ![Len(l)].n = @ - 1]
    ELSE SubSeq(l, 1, Len(l) - 1)

\* the contents of the lines of WriteRaw's input, numbered from 1
Lines == LET ls == SplitLines(reader, <<>>) IN [k \in 1..Len(ls) |-> Content(ls[k])]

\* the numbers of the lines whose content is longer than maxLength
OversizeLines == {k \in 1..Len(Lines) : RunsLen(Lines[k]) > maxLength}

RECURSIVE TerminatedFrom(_)
\* from line k on: every line that is not oversize, followed by one newline
TerminatedFrom(k) ==
    IF k > Len(Lines) THEN <<>>
    ELSE (IF k \in OversizeLines THEN <<>> ELSE <<Norm(Lines[k] \o Newline)>>)
         \o TerminatedFrom(k + 1)

\* ---- chunking and transmission together (checked under Spec)

\* a return value that is a transport or remote fault
Fault(e) == e.kind \in {"Response", "error"}

\* C7: in a WriteBatch or WriteRaw call a body is handed to write only after
\* the write of every earlier body returned nil; once a write returns a fault
\* no further body is handed over, and the call returns that very fault, not
\* ErrEventTooLong and not nil; a call that returns nil or ErrEventTooLong had
\* every write return nil.
C7_FaultStopsTheCall ==
    op \in {"WriteBatch", "WriteRaw"} =>
        /\ \A i \in 1..(Len(sent) - 1) : sent[i].err = RetNil
        /\ \A i \in 1..Len(sent) :
              Fault(sent[i].err) =>
                 /\ i = Len(sent)
                 /\ pc \in {"writeRet", "idle"}
                 /\ pc = "idle" => ret = sent[i].err
        /\ pc = "idle" =>
              /\ ret.kind \in {"nil", "ErrEventTooLong", "Response", "error"}
              /\ ret.kind \in {"nil", "ErrEventTooLong"}
                 => \A i \in 1..Len(sent) : sent[i].err = RetNil

\* a call whose second body failed after an oversize item had been seen, and
\* that returned the fault
C7_Witness ==
    /\ pc = "idle" /\ op \in {"WriteBatch", "WriteRaw"}
    /\ Len(sent) = 2 /\ Fault(sent[2].err) /\ ret = sent[2].err
    /\ sent[1].err = RetNil
    /\ op = "WriteBatch" /\ OversizeEvents # {}

\* C8 as claimed: with maxLength >= 1 every request body WriteRaw hands to
\* write is non-empty and at most maxLength bytes long, terminators included.
C8_RawBodiesBounded ==
    (op = "WriteRaw" /\ maxLength >= 1) =>
        \A i \in 1..Len(sent) :
            /\ RunsLen(sent[i].body) > 0
            /\ RunsLen(sent[i].body) <= maxLength

\* C9 as claimed: when every transmission of a WriteRaw call succeeded it
\* returns ErrEventTooLong with exactly the 1-based numbers, ascending, of the
\* lines whose content is longer than maxLength (nil when there are none), and
\* hands no body to write when every line is oversize.
C9_RawOversizeLineNumbers ==
    Succeeded("WriteRaw") =>
        /\ IF OversizeLines = {} THEN ret = RetNil
           ELSE ret = ErrEventTooLong(Ascending(OversizeLines, 1))
        /\ OversizeLines = 1..Len(Lines) => sent = <<>>

\* C10 as claimed: when every transmission of a WriteRaw call succeeded, the
\* bodies sent, concatenated in order, are the lines that are not oversize,
\* in input order, each followed by one newline and each whole inside one body.
C10_RawBodiesAreTheLines ==
    Succeeded("WriteRaw") =>
        /\ Concat(SentBodies) = Concat(TerminatedFrom(1))
        /\ WholeIn(SentBodies, TerminatedFrom(1))

\* ---- the oversize report (checked under SpecLines)

RECURSIVE NonEmpty(_)
\* the byte strings of a sequence that hold at least one byte
NonEmpty(ss) ==
    IF ss = <<>> THEN <<>>
    ELSE (IF Head(ss) = <<>> THEN <<>> ELSE <<Head(ss)>>) \o NonEmpty(Tail(ss))

RECURSIVE TransmittableFrom(_)
\* from line k on: the contents of the lines that are not empty and not oversize
TransmittableFrom(k) ==
    IF k > Len(Lines) THEN <<>>
    ELSE (IF k \notin OversizeLines /\ Lines[k] # <<>> THEN <<Lines[k]>> ELSE <<>>)
         \o TransmittableFrom(k + 1)

\* the non-empty lines found in the bodies handed to write
SentLines == NonEmpty(SplitLines(Concat(SentBodies), <<>>))

\* C11 as claimed: when a WriteBatch or WriteRaw call returns ErrEventTooLong,
\* every body it handed to write was requested and came back nil, and the
\* bodies hold exactly the non-empty items that are not oversize, in input
\* order: all of them were sent before the report, and no oversize item was.
C11_OversizeReportedLast ==
    (pc = "idle" /\ op \in {"WriteBatch", "WriteRaw"} /\ ret.kind = "ErrEventTooLong") =>
        /\ \A i \in 1..Len(sent) : sent[i].err = RetNil /\ sent[i].attempts >= 1
        /\ op = "WriteBatch" =>
              /\ Concat(SentBodies) = Concat(Transmittable)
              /\ WholeIn(SentBodies, Transmittable)
        /\ op = "WriteRaw" => SentLines = TransmittableFrom(1)

\* ---- records that are empty or cannot be encoded (checked under SpecCalls)

\* the bytes of the records the range loop of WriteBatch has gone past that
\* are to be transmitted
BatchBytesSoFar == Concat(EncodingsOf(SubSeq(events, 1, index)))

\* C12: WriteBatch on a list of empty records only (the empty list too) and
\* WriteEvent on an empty record return nil without handing any body to
\* write; in a WriteBatch call the bytes sent and buffered are at every moment
\* the encodings of the non-empty records gone past, so an empty record adds
\* no byte to any body.
C12_EmptyRecordsSendNothing ==
    /\ (CallReturned("WriteBatch") /\ \A i \in 1..Len(events) : empty(events[i]))
       => (ret = RetNil /\ sent = <<>>)
    /\ (CallReturned("WriteEvent") /\ empty(events[1]))
       => (ret = RetNil /\ sent = <<>>)
    /\ (op = "WriteBatch" /\ pc = "batchLoop")
       => Norm(Concat(SentBodies) \o buffer) = BatchBytesSoFar
    /\ (op = "WriteBatch" /\ pc \in {"write", "sleep", "writeRet"})
       => Concat(SentBodies) = BatchBytesSoFar

\* a list of MaxEvents empty records came back nil, nothing sent
C12_Witness ==
    /\ CallReturned("WriteBatch") /\ Len(events) = MaxEvents
    /\ \A i \in 1..Len(events) : empty(events[i])
    /\ ret = RetNil /\ sent = <<>>

\* ---- transport faults (checked under SpecEvent)

DoFailed == [err |-> "Do", status |-> 0, body |-> NoBody]

\* C13: a request that got no HTTP response, or whose response body could not
\* be read, is the last request of its write call: write returns that error
\* at once, without a sleep after it and without a further request, whatever
\* the retry limit and however few retries were used.
C13_TransportFaultNotRetried ==
    \A i \in 1..Len(sent) :
        LET e == sent[i] IN
        \A k \in 1..Len(e.answers) :
            e.answers[k].err # "none" =>
                /\ k = Len(e.answers)
                /\ e.err = NetErr(e.answers[k].err)
                /\ e.waits = k - 1
                /\ pc \in {"writeRet", "idle"}

\* under the retry limit 2: busy, then a failed connection after one sleep
C13_Witness ==
    /\ hecRetries = 2 /\ pc = "writeRet" /\ Len(sent) = 1
    /\ sent[1].answers = <<Busy, DoFailed>>
    /\ err = NetErr("Do") /\ sent[1].waits = 1 /\ retries = 1

\* ---- payloads that cannot be encoded (checked under SpecCalls)

\* C14 as claimed: WriteEvent on a record whose payload cannot be encoded
\* hands no body to write and returns a local error; a WriteBatch call on a
\* list holding such a record does not return nil.
C14_UnencodableReported ==
    /\ (op = "WriteEvent" /\ events[1].Event = Unencodable)
       => /\ sent = <<>>
          /\ pc = "idle" => ret.kind = "error"
    /\ (CallReturned("WriteBatch")
          /\ \E i \in 1..Len(events) : events[i].Event = Unencodable)
       => ret # RetNil

\* ---- WriteEvent and the size limit (checked under SpecEvent)

\* the message says "too long"
SaysTooLong(words) ==
    \E k \in 1..(Len(words) - 1) : words[k] = "too" /\ words[k + 1] = "long"

\* C15: WriteEvent on a non-empty record that encodes to more than maxLength
\* bytes returns ErrEventTooLong, whose message says "too long", and hands no
\* body to write; on a non-empty record that encodes to at most maxLength
\* bytes it hands exactly one body to write, the encoding, requests it when
\* the request can be built, and returns what write returned.
C15_WriteEventTooLong ==
    (op = "WriteEvent" /\ ~empty(events[1])) =>
        LET bytes == Marshal(events[1]) IN
        IF RunsLen(bytes) > maxLength
        THEN /\ pc = "idle" /\ sent = <<>>
             /\ ret = ErrEventTooLong(<<>>)
             /\ SaysTooLong(Error(ret).words)
        ELSE /\ Len(sent) = 1 /\ sent[1].body = bytes
             /\ pc = "idle" =>
                   /\ ret = sent[1].err /\ ret.kind # "ErrEventTooLong"
                   /\ NewRequestOK(serverURL) => sent[1].attempts >= 1

\* a record one byte longer than maxLength was refused
C15_Witness ==
    /\ CallReturned("WriteEvent") /\ ~empty(events[1])
    /\ RunsLen(Marshal(events[1])) = maxLength + 1
    /\ ret = ErrEventTooLong(<<>>) /\ sent = <<>>

\* ---- two calls at a time (checked under SpecTwo)
\* What a call does when it runs alone, computed from its argument, the
\* Client's fields and the answers its requests got.

RECURSIVE BatchChunks(_, _)
\* the bodies of a batch: the encodings packed in order, a body closed when the
\* next encoding would take it past maxLength
BatchChunks(items, cur) ==
    IF items = <<>> THEN (IF RunsLen(cur) > 0 THEN <<cur>> ELSE <<>>)
    ELSE IF RunsLen(cur) + RunsLen(Head(items)) > maxLength
         THEN <<cur>> \o BatchChunks(Tail(items), Norm(Head(items)))
         ELSE BatchChunks(Tail(items), Norm(cur \o Head(items)))

RECURSIVE RawChunks(_, _)
\* the bodies of a raw stream, line by line as the scanner delivers them
RawChunks(rest, cur) ==
    LET t == Scan(rest) IN
    IF ~t.ok THEN (IF RunsLen(cur) > 0 THEN <<cur>> ELSE <<>>)
    ELSE IF RunsLen(t.token) > maxLength THEN RawChunks(t.rest, cur)
    ELSE IF RunsLen(cur) + RunsLen(t.token) + 1 > maxLength
         THEN <<cur>> \o RawChunks(t.rest, Norm(t.token \o Newline))
         ELSE RawChunks(t.rest, Norm(cur \o t.token \o Newline))

RECURSIVE RawTooLongs(_, _)
\* the numbers of the lines the scanner delivers that are longer than maxLength
RawTooLongs(rest, number) ==
    LET t == Scan(rest) IN
    IF ~t.ok THEN <<>>
    ELSE (IF RunsLen(t.token) > maxLength THEN <<number>> ELSE <<>>)
         \o RawTooLongs(t.rest, number + 1)

\* the 0-based positions of the non-empty records of a list that encode to
\* more than maxLength bytes
OversizeIn(list) ==
    {i \in 0..(Len(list) - 1) :
        ~empty(list[i + 1]) /\ RunsLen(Marshal(list[i + 1])) > maxLength}

\* what write returns after these answers
WriteResult(answers) ==
    IF answers = <<>> THEN NetErr("NewRequest")
    ELSE LET o == answers[Len(answers)] IN
         IF o.err # "none" THEN NetErr(o.err)
         ELSE IF o.status # StatusOK
         THEN [kind |-> "Response", Text |-> IF o.body.json THEN o.body.text ELSE "",
               Code |-> CodeOf(o)]
         ELSE RetNil

\* the record of one write call is that of a write call running alone
AloneWrite(e) ==
    LET n == Len(e.answers) IN
    /\ e.attempts = n
    /\ n = 0 => ~NewRequestOK(serverURL) \/ e.err = NoReturn
    /\ \A k \in 1..(n - 1) : RetriableFailure(e.answers[k])
    /\ n <= (IF hecRetries > 0 THEN hecRetries ELSE 0) + 1
    /\ e.err # NoReturn =>
          /\ e.err = WriteResult(e.answers)
          /\ n >= 1 => e.waits = n - 1
          /\ (n >= 1 /\ RetriableFailure(e.answers[n])) => n >= hecRetries + 1

\* the call c sent the bodies, made the requests and returned the value the
\* same call makes and returns when it runs alone and gets the same answers
SameAsAlone(c) ==
    c.op \in {"WriteBatch", "WriteRaw"} =>
        LET bodies == IF c.op = "WriteBatch"
                      THEN BatchChunks(EncodingsOf(c.events), <<>>)
                      ELSE RawChunks(c.reader, <<>>)
            long == IF c.op = "WriteBatch"
                    THEN Ascending(OversizeIn(c.events), 0)
                    ELSE RawTooLongs(c.reader, 1)
            n == Len(c.sent)
        IN  /\ n <= Len(bodies)
            /\ \A i \in 1..n : c.sent[i].body = bodies[i] /\ AloneWrite(c.sent[i])
            /\ \A i \in 1..(n - 1) : c.sent[i].err = RetNil
            /\ c.pc = "idle" =>
                  IF n > 0 /\ c.sent[n].err # RetNil
                  THEN c.ret = c.sent[n].err
                  ELSE /\ n = Len(bodies)
                       /\ c.ret = IF long = <<>> THEN RetNil ELSE ErrEventTooLong(long)

\* C16: with two goroutines each inside or through a WriteBatch or WriteRaw
\* call on one Client, and no setter run since the first of them started,
\* each call handed to write the bodies, made per body the requests, and
\* returned the value of the same call running alone against the same
\* answers, however the two were interleaved.
C16_ConcurrentCallsIndependent ==
    SameAsAlone(Running) /\ SameAsAlone(other)

\* a batch of two bodies has returned while a raw call that began before it
\* ended sits between its first and its second body
C16_Witness ==
    /\ pc = "idle" /\ op = "WriteBatch" /\ Len(sent) = 2 /\ ret = RetNil
    /\ other.op = "WriteRaw" /\ other.pc = "rawLoop"
    /\ Len(other.sent) = 1 /\ other.sent[1].err = RetNil

\* ---- the retry counter of a call with several bodies (checked under Spec)

\* C17: in a WriteBatch or WriteRaw call the retry counter of write counts the
\* retries of the body in hand only: it is 0 when a body is handed over and
\* equals the sleeps taken for that body, whatever the bodies before needed;
\* so each body gets up to hecRetries+1 requests, and write gives up on a
\* retriable answer only at the request number hecRetries+1 of that body.
C17_RetryCounterPerBody ==
    op \in {"WriteBatch", "WriteRaw"} =>
        /\ pc \in {"write", "writeRet"} => retries = sent[Len(sent)].waits
        /\ pc = "sleep" => retries = sent[Len(sent)].waits + 1
        /\ \A i \in 1..Len(sent) :
              LET e == sent[i] IN
              /\ e.attempts <= hecRetries + 1
              /\ (e.err # NoReturn /\ e.attempts >= 1 /\ RetriableFailure(LastAnswer(e)))
                 => e.attempts = hecRetries + 1

\* the first body went through at its third request, and the second body
\* was requested three times too
C17_Witness ==
    /\ op = "WriteBatch" /\ Len(sent) = 2 /\ pc = "writeRet"
    /\ sent[1].answers = <<Busy, Busy, Success>>
    /\ sent[2].answers = <<Busy, Busy, Busy>>
    /\ sent[2].attempts = hecRetries + 1 /\ retries = hecRetries

\* ---- greedy chunking (checked under Spec)

\* the first j bodies are exactly the first k records to be transmitted
CutAt(j, k) ==
    Concat(SubSeq(Transmittable, 1, k)) = Concat(SubSeq(SentBodies, 1, j))

\* C18: in a WriteBatch call whose transmissions all succeeded the bodies are
\* cut greedily: where a body ends before the last record, that body and the
\* first record of the next body together exceed maxLength; two records that
\* follow one another among the records to be transmitted, the first of them
\* opening a body, lie in that one body when together they fit maxLength; and
\* two records that each fit but together exceed maxLength go out as two
\* bodies, one record each, in input order.
C18_GreedyChunking ==
    Succeeded("WriteBatch") =>
        LET T == Transmittable IN
        /\ WholeIn(SentBodies, T)
        /\ \A j \in 1..(Len(sent) - 1) :
              \E k \in 1..(Len(T) - 1) :
                 /\ CutAt(j, k)
                 /\ RunsLen(sent[j].body) + RunsLen(T[k + 1]) > maxLength
        /\ \A j \in 1..Len(sent) :
              \A k \in 0..(Len(T) - 2) :
                 (CutAt(j - 1, k) /\ RunsLen(T[k + 1]) + RunsLen(T[k + 2]) <= maxLength)
                 => \E m \in (k + 2)..Len(T) : CutAt(j, m)
        /\ (Len(T) = 2 /\ RunsLen(T[1]) + RunsLen(T[2]) > maxLength)
           => SentBodies = <<T[1], T[2]>>

\* three records: the first two fill a body to the limit, the third goes alone
C18_Witness ==
    /\ Succeeded("WriteBatch") /\ ret = RetNil
    /\ Len(Transmittable) = 3 /\ Len(sent) = 2
    /\ RunsLen(sent[1].body) = maxLength
    /\ sent[2].body = Transmittable[3]

\* two records of 3 and 4 bytes under the limit 6: two bodies, one each
C18_WitnessTwoBodies ==
    /\ Succeeded("WriteBatch") /\ Len(Transmittable) = 2
    /\ RunsLen(Transmittable[1]) + RunsLen(Transmittable[2]) > maxLength
    /\ SentBodies = Transmittable

\* ---- breaking a raw stream (checked under SpecBreak)

RECURSIVE NonTerminators(_)
\* how many bytes of a byte string are no newline
NonTerminators(bytes) ==
    IF bytes = <<>> THEN 0
    ELSE (IF Head(bytes).b = LF THEN 0 ELSE Head(bytes).n) + NonTerminators(Tail(bytes))

\* the contents of all the lines of the input that are not empty
AllLines == NonEmpty(Lines)

\* p is the beginning of q
IsPrefix(p, q) == Len(p) <= Len(q) /\ SubSeq(q, 1, Len(p)) = p

\* the call has returned and every body it handed over was taken without error
AllTaken == CallReturned("WriteRaw") /\ \A i \in 1..Len(sent) : sent[i].err = RetNil

NoSetterRunning == \A c \in Callers : setter[c].pc = "idle"

\* C20: the inner clients of a Cluster all carry one channel after NewCluster
\* and whenever no SetChannel call is under way, also when SetChannel was
\* called from several goroutines at once; more, whenever the mutex is free;
\* the clients a setter has not reached yet still agree with one another; a
\* Write* call picks its client without the mutex, locked or not.
C20_OneChannel ==
    /\ (NoSetterRunning \/ mtx = 0) =>
          \A i, j \in 1..Len(channels) : channels[i] = channels[j]
    /\ NoSetterRunning => mtx = 0
    /\ \A c \in Callers :
          (mtx = c) =>
             /\ setter[c].pc = "loop"
             /\ \A i \in 1..(setter[c].i - 1) : channels[i] = setter[c].channel
             /\ \A i, j \in setter[c].i..Len(channels) : channels[i] = channels[j]

\* two SetChannel calls with different channels are through, the first
\* goroutine having found the mutex locked by the second; all clients carry
\* the channel of the first
C20_Witness ==
    /\ NoSetterRunning /\ mtx = 0
    /\ setter[1].channel = "c1" /\ setter[2].channel = "c2" /\ setter[1].waited
    /\ \A i \in 1..Len(channels) : channels[i] = "c1"

\* ---- termination (checked under SpecLive)
RECURSIVE TotalAttempts(_)
\* the request attempts of a call, over all the bodies it handed to write
TotalAttempts(h) == IF h = <<>> THEN 0 ELSE Head(h).attempts + TotalAttempts(Tail(h))

\* a Write* call is running
InCall == pc # "idle"

\* with k bodies handed to write so far and retry limit R >= 0, the call has made
\* at most k*(R+1) request attempts
AttemptsBounded ==
    (op \in {"WriteEvent", "WriteBatch", "WriteRaw"} /\ hecRetries >= 0) =>
        TotalAttempts(sent) <= Len(sent) * (hecRetries + 1)

\* C21: every WriteEvent, WriteBatch and WriteRaw call on a finite input
\* returns, whatever the endpoint answers and however long it answers a
\* retriable code, as long as each request attempt itself returns; with k
\* bodies and retry limit R >= 0 the call makes at most k*(R+1) request
\* attempts in total.
C21_CallsTerminate == []AttemptsBounded /\ (InCall ~> ~InCall)

\* a WriteRaw call of two bodies that has returned after k*(R+1) attempts, the
\* endpoint having answered busy to all of them but the last for the first body
C21_Witness ==
    /\ CallReturned("WriteRaw") /\ hecRetries >= 1 /\ Len(sent) = 2
    /\ TotalAttempts(sent) = Len(sent) * (hecRetries + 1)
    /\ \A j \in 1..(Len(sent[1].answers) - 1) : sent[1].answers[j] = Busy
    /\ \A j \in 1..Len(sent[2].answers) : sent[2].answers[j] = Busy

====
